---- MODULE Spec2Model ----
(***************************************************************************)
(* TextQL playbooks client and command-line front-end.                     *)
(*                                                                         *)
(* The model follows one process at a time: either a command-line          *)
(* invocation (TextQLCLI.run) or a script that builds a TextQLClient and   *)
(* calls one of its operations.  The persisted settings file outlives the  *)
(* processes; everything else is per process.                              *)
(*                                                                         *)
(* JavaScript values are tagged records.  A string is a sequence of atoms: *)
(* single characters wherever the code looks inside the string ('=' and    *)
(* ',' separators, digits, letters whose case matters), longer pieces      *)
(* where it does not.                                                      *)
(***************************************************************************)
EXTENDS Integers, Sequences, FiniteSets, TLC

VARIABLES
  file,         \* ~/.textql/config.json: absent, or the JSON record it holds
  env,          \* process.env.TEXTQL_API_KEY of the running process
  mode,         \* "none" | "cli" | "lib": what kind of process is running
  argv,         \* process.argv.slice(2) of a command-line invocation
  client,       \* the TextQLClient instance of the process (its config), or undefined
  op,           \* the client operation in progress or last run
  params,       \* the argument of that operation
  pc,           \* position of the process
  requests,     \* the requests handed to fetch by this process, in order
  responses,    \* how fetch settled for each of them, in order
  inFlight,     \* number of requests sent and not yet settled
  createResult, \* createCompletePlaybook's local createResult
  result,       \* what the client operation returned
  thrown,       \* what the client operation raised
  exitCode,     \* exit status of the command-line process
  done          \* the operations a script has called before this one, in order

vars == <<file, env, mode, argv, client, op, params, pc, requests, responses,
          inFlight, createResult, result, thrown, exitCode, done>>

-----------------------------------------------------------------------------
(* Bounds *)

\* Longest connector list a GetConnectors response carries.
MaxConnectors == 2

\* Most operations one script calls in sequence.
MaxCalls == 2

-----------------------------------------------------------------------------
(* JavaScript values *)

U == [t |-> "undefined"]
Null == [t |-> "null"]
NaN == [t |-> "NaN"]
Str(s) == [t |-> "string", s |-> s]
Num(n) == [t |-> "number", n |-> n]
Arr(a) == [t |-> "array", a |-> a]
Obj(f) == [t |-> "object", f |-> f]
EmptyObj == Obj([k \in {} |-> U])

\* ToBoolean, as applied by !x, x || y and x ? y : z.
Truthy(x) ==
  CASE x.t = "undefined" -> FALSE
    [] x.t = "null" -> FALSE
    [] x.t = "NaN" -> FALSE
    [] x.t = "string" -> x.s # <<>>
    [] x.t = "number" -> x.n # 0
    [] OTHER -> TRUE

\* x || y
Or(x, y) == IF Truthy(x) THEN x ELSE y

\* A destructuring or parameter default: it applies to undefined only.
Default(x, d) == IF x.t = "undefined" THEN d ELSE x

\* o.k for a non-nullish o: an own field of an object, undefined otherwise.
Get(o, k) == IF o.t = "object" /\ k \in DOMAIN o.f THEN o.f[k] ELSE U

\* o?.k
OptGet(o, k) == IF o.t \in {"undefined", "null"} THEN U ELSE Get(o, k)

-----------------------------------------------------------------------------
(* Strings *)

\* String.prototype.startsWith
StartsWith(s, prefix) ==
  /\ Len(s) >= Len(prefix)
  /\ SubSeq(s, 1, Len(prefix)) = prefix

\* String.prototype.includes
Includes(s, sub) ==
  \E i \in 0..(Len(s) - Len(sub)) : SubSeq(s, i + 1, i + Len(sub)) = sub

LowerChar(c) ==
  CASE c = "A" -> "a" [] c = "B" -> "b" [] c = "C" -> "c" [] c = "D" -> "d" [] c = "E" -> "e" [] c = "F" -> "f"
    [] c = "G" -> "g" [] c = "H" -> "h" [] c = "I" -> "i" [] c = "J" -> "j" [] c = "K" -> "k" [] c = "L" -> "l"
    [] c = "M" -> "m" [] c = "N" -> "n" [] c = "O" -> "o" [] c = "P" -> "p" [] c = "Q" -> "q" [] c = "R" -> "r"
    [] c = "S" -> "s" [] c = "T" -> "t" [] c = "U" -> "u" [] c = "V" -> "v" [] c = "W" -> "w" [] c = "X" -> "x"
    [] c = "Y" -> "y" [] c = "Z" -> "z"
    [] OTHER -> c

\* String.prototype.toLowerCase
ToLowerCase(s) == [i \in 1..Len(s) |-> LowerChar(s[i])]

\* Index of the first atom of s equal to sep, 0 when there is none.
IndexOf(s, sep) ==
  IF \E i \in 1..Len(s) : s[i] = sep
  THEN CHOOSE i \in 1..Len(s) : s[i] = sep /\ \A j \in 1..(i - 1) : s[j] # sep
  ELSE 0

\* String.prototype.split with a one-character separator: every piece
\* between separators, empty pieces included.
RECURSIVE Split(_, _)
Split(s, sep) ==
  LET i == IndexOf(s, sep) IN
  IF i = 0 THEN <<s>>
  ELSE <<SubSeq(s, 1, i - 1)>> \o Split(SubSeq(s, i + 1, Len(s)), sep)

DigitChars == {"0", "1", "2", "3", "4", "5", "6", "7", "8", "9"}

DigitVal(c) ==
  CASE c = "0" -> 0 [] c = "1" -> 1 [] c = "2" -> 2 [] c = "3" -> 3
    [] c = "4" -> 4 [] c = "5" -> 5 [] c = "6" -> 6 [] c = "7" -> 7
    [] c = "8" -> 8 [] c = "9" -> 9

RECURSIVE DigitsValue(_, _)
DigitsValue(s, acc) ==
  IF s = <<>> \/ Head(s) \notin DigitChars THEN acc
  ELSE DigitsValue(Tail(s), 10 * acc + DigitVal(Head(s)))

\* parseInt on a decimal string: an optional sign, then the leading digits;
\* NaN when there are none.
ParseInt(s) ==
  LET neg == s # <<>> /\ Head(s) = "-"
      body == IF s # <<>> /\ Head(s) \in {"-", "+"} THEN Tail(s) ELSE s
  IN IF body = <<>> \/ Head(body) \notin DigitChars THEN NaN
     ELSE Num(IF neg THEN 0 - DigitsValue(body, 0) ELSE DigitsValue(body, 0))

-----------------------------------------------------------------------------
(* Results: TextQLResponse<T> *)

Success(d) == [t |-> "result", success |-> TRUE, data |-> d, error |-> U]
Failure(e) == [t |-> "result", success |-> FALSE, data |-> U, error |-> e]

IsResult(v) == v.t = "result"

\* An Error instance, and the completion of a function that raises x instead
\* of returning a value.
Err(message) == [t |-> "error", message |-> message]
Throw(x) == [t |-> "throw", x |-> x]

-----------------------------------------------------------------------------
(* The transport: how fetch settles *)

\* A response body is text that is not JSON (the empty text included) or the
\* JSON text of a value.
TextBody(s) == [t |-> "text", s |-> s]
JsonBody(v) == [t |-> "json", v |-> v]

PlainTexts == {<<>>, <<"Bad Gateway">>}

\* JSON error bodies: an error record, and JSON of other shapes.
ErrorJsons ==
  { Obj([message |-> Str(<<"bad request">>), code |-> Str(<<"E1">>)]),
    EmptyObj, Null, Str(<<"oops">>) }

ErrorBodies == {TextBody(s) : s \in PlainTexts} \cup {JsonBody(v) : v \in ErrorJsons}

Response(ok, status, statusText, body) ==
  [kind |-> "response", ok |-> ok, status |-> status, statusText |-> statusText,
   body |-> body]

\* fetch rejects with an Error, or with a value that is not one.
Rejections ==
  { [kind |-> "reject", x |-> Err(Str(<<"fetch failed">>))],
    [kind |-> "reject", x |-> Str(<<"aborted">>)] }

ErrorResponses ==
  { Response(FALSE, 502, <<"Bad Gateway">>, b) : b \in ErrorBodies }

\* Connector names the service may hold, and the lists it may return.
ConnectorNames ==
  { <<"P", "o", "s", "t", "g", "r", "e", "s", "-", "P", "r", "o", "d">>,
    <<"M", "y", "S", "Q", "L">>,
    <<"p", "o", "s", "t", "g", "r", "e", "s", "-", "d", "e", "v">> }

RECURSIVE SeqsUpTo(_, _)
SeqsUpTo(S, n) ==
  IF n = 0 THEN {<<>>}
  ELSE LET shorter == SeqsUpTo(S, n - 1) IN
       shorter \cup {Append(q, x) : q \in shorter, x \in S}

Connector(id, name) ==
  Obj([id |-> Num(id), name |-> Str(name)])

ConnectorLists ==
  { Arr([i \in 1..Len(names) |-> Connector(i, names[i])]) :
      names \in SeqsUpTo(ConnectorNames, MaxConnectors) }

\* Success bodies per endpoint: not JSON, JSON null, and a record.
SuccessBodies(endpoint) ==
  {TextBody(<<"<html>">>), JsonBody(Null)} \cup
  CASE endpoint = "CreatePlaybook" ->
         {JsonBody(Obj([playbook |-> Obj([id |-> Str(<<"srv-1">>)])]))}
    [] endpoint = "UpdatePlaybook" ->
         {JsonBody(Obj([id |-> Str(<<"srv-1">>), status |-> Str(<<"stored">>)]))}
    [] endpoint = "GetConnectors" ->
         {JsonBody(EmptyObj)} \cup
         {JsonBody(Obj([connectors |-> l])) : l \in ConnectorLists}

Outcomes(endpoint) ==
  Rejections \cup ErrorResponses \cup
  { Response(TRUE, 200, <<"OK">>, b) : b \in SuccessBodies(endpoint) }

-----------------------------------------------------------------------------
(* TextQLClient *)

DefaultBaseUrl == <<"https://app.textql.com">>

\* constructor
TextQLClient(config) ==
  [config |-> config,
   baseUrl |-> Or(config.baseUrl, Str(DefaultBaseUrl))]

EndpointPath(endpoint) ==
  CASE endpoint = "CreatePlaybook" ->
         <<"/rpc/public/textql.rpc.public.playbook.PlaybookService/CreatePlaybook">>
    [] endpoint = "UpdatePlaybook" ->
         <<"/rpc/public/textql.rpc.public.playbook.PlaybookService/UpdatePlaybook">>
    [] endpoint = "GetConnectors" ->
         <<"/rpc/public/textql.rpc.public.connector.ConnectorService/GetConnectors">>

\* `${v}` of a template literal
ToStr(v) == IF v.t = "string" THEN v.s ELSE <<v.t>>

\* makeRequest up to its fetch call: the request it hands to fetch.
MakeRequestSend(c, endpoint, method, body) ==
  [endpoint |-> endpoint,
   url |-> ToStr(c.baseUrl) \o EndpointPath(endpoint),
   method |-> method,
   authorization |-> <<"ApiKey ">> \o ToStr(c.config.apiKey),
   contentType |-> "application/json",
   body |-> IF Truthy(body) THEN JsonBody(body) ELSE U]

\* JSON.parse / response.json(): the value, or a SyntaxError raised.
JSONParse(body) ==
  IF body.t = "json" THEN body.v
  ELSE Throw(Err(Str(<<"JSON Parse error">>)))

\* The try block of makeRequest from the settling of fetch on: it returns a
\* Result or raises.
MakeRequestTry(o) ==
  IF o.kind = "reject" THEN Throw(o.x)
  ELSE IF ~o.ok
  THEN LET errorText == Str(o.body.s)
           parsed == JSONParse(o.body)
           errorData ==
             IF parsed.t # "throw" THEN parsed
             ELSE Obj([message |->
                         Or(errorText,
                            Str(<<"HTTP ", ToString(o.status), ": ">> \o o.statusText)),
                       status |-> Num(o.status)])
       IN Failure(errorData)
  ELSE LET data == JSONParse(o.body) IN
       IF data.t = "throw" THEN data ELSE Success(data)

\* The catch clause of makeRequest.
MakeRequestCatch(error) ==
  Failure(Obj([message |-> IF error.t = "error" THEN error.message
                           ELSE Str(<<"Unknown error occurred">>)]))

\* (variant: no catch clause around the request)
MakeRequestUncaught(o) == MakeRequestTry(o)

\* makeRequest from the settling of fetch to its return.
MakeRequestResult(o) ==
  LET c == MakeRequestTry(o) IN
  IF c.t = "throw" THEN MakeRequestCatch(c.x) ELSE c

\* createPlaybook's request body
CreatePlaybookRequest(playbookId) ==
  Obj([playbook |-> Obj([id |-> playbookId])])

DefaultCron == <<"0 13 * * *">>

\* (variant: the parameters are passed on without their defaults)
CompleteUpdateRequestAsGiven(p) ==
  Obj([prompt |-> p.prompt,
       name |-> p.name,
       playbookId |-> p.playbookId,
       emailAddresses |-> p.emailAddresses,
       status |-> p.status,
       paradigmType |-> Str(<<"TYPE_SQL">>),
       paradigmOptions |-> Obj([connectorId |-> p.connectorId]),
       triggerType |-> Str(<<"TRIGGER_TYPE_CRON">>),
       cronString |-> p.cronString])

\* createCompletePlaybook's request body for its update step
CompleteUpdateRequest(p) ==
  Obj([prompt |-> p.prompt,
       name |-> p.name,
       playbookId |-> p.playbookId,
       emailAddresses |-> p.emailAddresses,
       status |-> Default(p.status, Str(<<"STATUS_ACTIVE">>)),
       paradigmType |-> Str(<<"TYPE_SQL">>),
       paradigmOptions |-> Obj([connectorId |-> p.connectorId]),
       triggerType |-> Str(<<"TRIGGER_TYPE_CRON">>),
       cronString |-> Default(p.cronString, Str(DefaultCron))])

\* (variant: the create step's failure is not looked at)
CompleteNeverShortCircuits(cr) == FALSE

\* createCompletePlaybook after its create step: whether it returns at once.
CompleteShortCircuits(cr) == ~cr.success

\* What createCompletePlaybook returns when the create step failed.
CompleteCreateFailure(cr) == Failure(cr.error)

\* (variant: a successful update is reported with the create step's data)
CompleteReturnsCreateData(cr, ur) == IF ur.success THEN Success(cr.data) ELSE ur

\* (variant: a failed update is reported as the success of the create step)
CompleteMasksUpdateFailure(cr, ur) == IF ur.success THEN ur ELSE Success(cr.data)

\* What createCompletePlaybook returns after its update step.
CompleteReturn(cr, ur) == ur

\* (variant: a failed fetch is reported as an empty list)
ListConnectorsSwallows(r) ==
  IF r.t = "throw" THEN r
  ELSE IF ~r.success \/ ~Truthy(r.data) THEN Arr(<<>>)
  ELSE Get(r.data, "connectors")

\* listConnectors, given what getConnectors came to: it raises or returns
\* result.data.connectors.
ListConnectors(r) ==
  IF r.t = "throw" THEN r
  ELSE IF ~r.success \/ ~Truthy(r.data)
  THEN Throw(Err(Or(OptGet(r.error, "message"), Str(<<"Failed to fetch connectors">>))))
  ELSE Get(r.data, "connectors")

\* (variant: the substring test without case folding)
MatchesCaseSensitive(connector, name) ==
  Includes(Get(connector, "name").s, name.s)

\* connector.name.toLowerCase().includes(name.toLowerCase())
Matches(connector, name) ==
  Includes(ToLowerCase(Get(connector, "name").s), ToLowerCase(name.s))

\* findConnectorByName, given what listConnectors came to: Array.prototype.find
\* with the case-folded substring test, then || null.
FindConnectorByName(connectors, name) ==
  IF connectors.t = "throw" THEN connectors
  ELSE IF connectors.t # "array"
  THEN Throw(Err(Str(<<"undefined is not an object">>)))
  ELSE LET a == connectors.a
           hits == {i \in 1..Len(a) : Matches(a[i], name)}
       IN IF hits = {} THEN Null
          ELSE Or(a[CHOOSE i \in hits : \A j \in hits : i <= j], Null)

-----------------------------------------------------------------------------
(* ConfigManager *)

FileAbsent == [t |-> "absent"]

\* loadConfig: the empty record when the file does not exist or does not parse.
LoadConfig(f) ==
  IF f.t = "absent" THEN EmptyObj
  ELSE LET parsed == JSONParse(f) IN
       IF parsed.t = "throw" THEN EmptyObj ELSE parsed

\* (variant: the record written holds the new field alone)
PutAlone(o, k, v) == Obj([x \in {k} |-> v])

\* config.k = v
Put(o, k, v) ==
  Obj([x \in (DOMAIN o.f) \cup {k} |-> IF x = k THEN v ELSE o.f[x]])

\* saveConfig: the file holds JSON.stringify(config).
SaveConfig(config) == JsonBody(config)

\* (variant: the environment variable is looked at first)
GetApiKeyEnvFirst(f, e) == Or(Or(e, Get(LoadConfig(f), "apiKey")), Null)

GetApiKey(f, e) == Or(Or(Get(LoadConfig(f), "apiKey"), e), Null)
GetBaseUrl(f) == Or(Get(LoadConfig(f), "baseUrl"), Str(DefaultBaseUrl))
\* (variant: the persisted default connector is not read)
GetDefaultConnectorIdNone(f) == Null

\* (variant: the persisted default schedule is not read)
GetDefaultCronStringFixed(f) == Str(DefaultCron)

GetDefaultConnectorId(f) == Or(Get(LoadConfig(f), "defaultConnectorId"), Null)
GetDefaultCronString(f) == Or(Get(LoadConfig(f), "defaultCronString"), Str(DefaultCron))

SetApiKey(f, apiKey) == SaveConfig(Put(LoadConfig(f), "apiKey", apiKey))
SetDefaultConnectorId(f, id) == SaveConfig(Put(LoadConfig(f), "defaultConnectorId", id))
SetDefaultCronString(f, cron) == SaveConfig(Put(LoadConfig(f), "defaultCronString", cron))

-----------------------------------------------------------------------------
(* TextQLCLI: the handlers up to their first request or their exit *)

\* args[i] of a string array: undefined past its end.
At(args, i) == IF i <= Len(args) THEN Str(args[i]) ELSE U

\* args.find(arg => arg.startsWith(prefix))?.split('=')[1]
ParseFlag(args, prefix) ==
  LET hits == {i \in 1..Len(args) : StartsWith(args[i], prefix)} IN
  IF hits = {} THEN U
  ELSE LET tok == args[CHOOSE i \in hits : \A j \in hits : i <= j]
           pieces == Split(tok, "=")
       IN IF Len(pieces) >= 2 THEN Str(pieces[2]) ELSE U

\* ...?.split(',')
SplitEmails(v) ==
  IF v.t = "undefined" THEN U
  ELSE LET pieces == Split(v.s, ",") IN
       Arr([i \in 1..Len(pieces) |-> Str(pieces[i])])

\* (variant: the client is built without looking at the key)
InitializeClientUnchecked(f, e) ==
  TextQLClient([apiKey |-> GetApiKey(f, e), baseUrl |-> GetBaseUrl(f)])

\* initializeClient: the client, or undefined when it exits the process.
InitializeClient(f, e) ==
  LET apiKey == GetApiKey(f, e) IN
  IF ~Truthy(apiKey) THEN U
  ELSE TextQLClient([apiKey |-> apiKey, baseUrl |-> GetBaseUrl(f)])

\* connectorId ? parseInt(connectorId) : getDefaultConnectorId()
ConnectorIdNum(f, connectorId) ==
  IF Truthy(connectorId) THEN ParseInt(connectorId.s) ELSE GetDefaultConnectorId(f)

\* (variant: only the playbook id is required)
RequiredMissingIdOnly(playbookId, prompt, name, emails) == ~Truthy(playbookId)

\* handleCreate's test of its required flags
RequiredMissing(playbookId, prompt, name, emails) ==
  ~Truthy(playbookId) \/ ~Truthy(prompt) \/ ~Truthy(name) \/ ~Truthy(emails)

Exits(c) == [exit |-> TRUE, client |-> c, params |-> U]
Calls(c, p) == [exit |-> FALSE, client |-> c, params |-> p]

\* handleCreate up to its call of createCompletePlaybook.
HandleCreate(f, e, args) ==
  LET c == InitializeClient(f, e)
      playbookId == ParseFlag(args, <<"--id", "=">>)
      prompt == ParseFlag(args, <<"--prompt", "=">>)
      name == ParseFlag(args, <<"--name", "=">>)
      emails == SplitEmails(ParseFlag(args, <<"--emails", "=">>))
      connectorId == ParseFlag(args, <<"--connector", "=">>)
      cronString == ParseFlag(args, <<"--cron", "=">>)
      connectorIdNum == ConnectorIdNum(f, connectorId)
  IN IF c = U THEN Exits(U)
     ELSE IF RequiredMissing(playbookId, prompt, name, emails) THEN Exits(c)
     ELSE IF ~Truthy(connectorIdNum) THEN Exits(c)
     ELSE Calls(c, [playbookId |-> playbookId,
                    prompt |-> prompt,
                    name |-> name,
                    emailAddresses |-> emails,
                    connectorId |-> connectorIdNum,
                    cronString |-> Or(cronString, GetDefaultCronString(f)),
                    status |-> U])

\* handleUpdate up to its call of updatePlaybook.
HandleUpdate(f, e, args) ==
  LET c == InitializeClient(f, e)
      playbookId == ParseFlag(args, <<"--id", "=">>)
      prompt == ParseFlag(args, <<"--prompt", "=">>)
      name == ParseFlag(args, <<"--name", "=">>)
      emails == SplitEmails(ParseFlag(args, <<"--emails", "=">>))
      connectorId == ParseFlag(args, <<"--connector", "=">>)
      cronString == ParseFlag(args, <<"--cron", "=">>)
      statusArg == ParseFlag(args, <<"--status", "=">>)
      status == IF statusArg = Str(<<"STATUS_ACTIVE">>) \/ statusArg = Str(<<"STATUS_INACTIVE">>)
                THEN statusArg ELSE U
      connectorIdNum == ConnectorIdNum(f, connectorId)
  IN IF c = U THEN Exits(U)
     ELSE IF ~Truthy(playbookId) THEN Exits(c)
     ELSE IF ~Truthy(connectorIdNum) THEN Exits(c)
     ELSE Calls(c, Obj([prompt |-> Or(prompt, Str(<<"SELECT 1;">>)),
                        name |-> Or(name, Str(<<"Updated Playbook">>)),
                        playbookId |-> playbookId,
                        emailAddresses |-> Or(emails, Arr(<<Str(<<"admin@example.com">>)>>)),
                        status |-> Or(status, Str(<<"STATUS_ACTIVE">>)),
                        paradigmType |-> Str(<<"TYPE_SQL">>),
                        paradigmOptions |-> Obj([connectorId |-> connectorIdNum]),
                        triggerType |-> Str(<<"TRIGGER_TYPE_CRON">>),
                        cronString |-> Or(cronString, GetDefaultCronString(f))]))

\* handleConnectors up to its call of listConnectors.
HandleConnectors(f, e) ==
  LET c == InitializeClient(f, e) IN
  IF c = U THEN Exits(U) ELSE Calls(c, U)

\* handleConfig: the exit status and the settings file it leaves.
HandleConfig(f, args) ==
  LET subcommand == At(args, 1)
      arg == At(args, 2)
      connectorId == IF arg.t = "string" THEN ParseInt(arg.s) ELSE NaN
  IN CASE subcommand = Str(<<"set-api-key">>) ->
            IF ~Truthy(arg) THEN [code |-> 1, file |-> f]
            ELSE [code |-> 0, file |-> SetApiKey(f, arg)]
       [] subcommand = Str(<<"set-connector">>) ->
            IF ~Truthy(arg) THEN [code |-> 1, file |-> f]
            ELSE IF connectorId.t = "NaN" THEN [code |-> 1, file |-> f]
            ELSE [code |-> 0, file |-> SetDefaultConnectorId(f, connectorId)]
       [] subcommand = Str(<<"set-cron">>) ->
            IF ~Truthy(arg) THEN [code |-> 1, file |-> f]
            ELSE [code |-> 0, file |-> SetDefaultCronString(f, arg)]
       [] subcommand = Str(<<"show">>) -> [code |-> 0, file |-> f]
       [] OTHER -> [code |-> 1, file |-> f]

\* The exit status the handlers end with, given what the client operation
\* came to: a value returned, or an error raised into their catch clause.
HandleConnectorsExit(c) ==
  IF c.t = "throw" THEN 1
  ELSE IF c.t \in {"undefined", "null"} THEN 1   \* connectors.length raises
  ELSE 0
\* (variant: handleUpdate does not look at the Result)
HandleUpdateExitIgnoresResult(c) == 0

HandleCreateExit(c) == IF c.t = "throw" THEN 1 ELSE IF c.success THEN 0 ELSE 1
HandleUpdateExit(c) == IF c.t = "throw" THEN 1 ELSE IF c.success THEN 0 ELSE 1

-----------------------------------------------------------------------------
(* Inputs *)

EnvValues == {U, Str(<<"key-env">>)}

\* The configuration a script builds its client with.
LibConfig == [apiKey |-> Str(<<"key-lib">>), baseUrl |-> U]

PlaybookIds == {Str(<<"pb1">>)}

CompleteParams ==
  { [playbookId |-> id,
     prompt |-> Str(<<"SELECT 1">>),
     name |-> Str(<<"Report">>),
     emailAddresses |-> Arr(<<Str(<<"a@x.com">>)>>),
     connectorId |-> Num(213),
     cronString |-> cron,
     status |-> status] :
      id \in PlaybookIds,
      cron \in {U, Str(<<"0 9 * * 1">>)},
      status \in {U, Str(<<"STATUS_INACTIVE">>)} }

UpdateRequests == {CompleteUpdateRequest(p) : p \in CompleteParams}

POSTGRES == <<"p", "o", "s", "t", "g", "r", "e", "s">>
SQL == <<"S", "Q", "L">>
PROD == <<"P", "R", "O", "D">>
ORACLE == <<"o", "r", "a", "c", "l", "e">>

FindNames ==
  { Str(<<>>), Str(POSTGRES), Str(SQL), Str(PROD), Str(ORACLE) }

\* A --flag=value token, and the choices for each flag: no token, or one.
Tok(flag, value) == <<flag, "=">> \o value

IdToks == {<<>>, <<Tok("--id", <<"pb1">>)>>, <<Tok("--id", <<>>)>>}
PromptToks == {<<>>, <<Tok("--prompt", <<"SELECT * FROM t WHERE a", "=", "1">>)>>}
NameToks == {<<>>, <<Tok("--name", <<"Weekly">>)>>}
EmailsToks == {<<>>, <<Tok("--emails", <<"a@x.com", ",", "b@y.com">>)>>}
ConnectorToks ==
  { <<>>, <<Tok("--connector", <<"5">>)>>, <<Tok("--connector", <<"0">>)>>,
    <<Tok("--connector", <<"x">>)>> }
CronToks == {<<>>, <<Tok("--cron", <<"*/5 * * * *">>)>>, <<Tok("--cron", <<>>)>>}
StatusToks ==
  { <<>>, <<Tok("--status", <<"STATUS_INACTIVE">>)>>, <<Tok("--status", <<"paused">>)>>,
    <<Tok("--status", <<"STATUS_INACTIVE", "=", "x">>)>> }

CreateArgvs ==
  { <<<<"create">>>> \o i \o p \o n \o m \o c \o k :
      i \in IdToks, p \in PromptToks, n \in NameToks, m \in EmailsToks,
      c \in ConnectorToks, k \in CronToks }

UpdateArgvs ==
  { <<<<"update">>>> \o i \o p \o n \o m \o c \o k \o t :
      i \in IdToks, p \in PromptToks, n \in NameToks, m \in EmailsToks,
      c \in ConnectorToks, k \in CronToks, t \in StatusToks }

ConfigArgvs ==
  { <<<<"config">>>>,
    <<<<"config">>, <<"set-api-key">>>>,
    <<<<"config">>, <<"set-api-key">>, <<"key-file">>>>,
    <<<<"config">>, <<"set-connector">>>>,
    <<<<"config">>, <<"set-connector">>, <<"7">>>>,
    <<<<"config">>, <<"set-connector">>, <<"0">>>>,
    <<<<"config">>, <<"set-connector">>, <<"x">>>>,
    <<<<"config">>, <<"set-cron">>>>,
    <<<<"config">>, <<"set-cron">>, <<"0 9 * * *">>>>,
    <<<<"config">>, <<"show">>>>,
    <<<<"config">>, <<"reset">>>> }

\* What the settings file holds before the first process: nothing, or a
\* record written earlier.
InitialFiles ==
  { FileAbsent,
    SaveConfig(Obj([baseUrl |-> Str(<<"https://staging.textql.com">>)])) }

OtherArgvs ==
  { <<>>, <<<<"connectors">>>>, <<<<"help">>>>, <<<<"--help">>>>, <<<<"-h">>>>,
    <<<<"delete">>>> }

-----------------------------------------------------------------------------
(* State machine *)

Init ==
  /\ file \in InitialFiles
  /\ env = U
  /\ mode = "none"
  /\ argv = <<>>
  /\ client = U
  /\ op = "none"
  /\ params = U
  /\ pc = "idle"
  /\ requests = <<>>
  /\ responses = <<>>
  /\ inFlight = 0
  /\ createResult = U
  /\ result = U
  /\ thrown = U
  /\ exitCode = U
  /\ done = <<>>

\* The process is over.
Stopped == pc \in {"returned", "raised", "exited"}

\* A new process starts.
Start(m, a, e) ==
  /\ pc = "idle"
  /\ mode' = m
  /\ argv' = a
  /\ env' = e
  /\ responses' = <<>>
  /\ createResult' = U
  /\ result' = U
  /\ thrown' = U
  /\ done' = <<>>

\* process.exit(code), or the end of run, before any request.
ExitNow(c, code) ==
  /\ client' = c
  /\ op' = "none"
  /\ params' = U
  /\ pc' = "exited"
  /\ requests' = <<>>
  /\ inFlight' = 0
  /\ exitCode' = Num(code)

\* The process calls a client operation, which sends its first request.
CallOp(c, o, p, at, endpoint, body) ==
  /\ client' = c
  /\ op' = o
  /\ params' = p
  /\ pc' = at
  /\ requests' = <<MakeRequestSend(c, endpoint, "POST", body)>>
  /\ inFlight' = 1
  /\ exitCode' = U

\* (variant: a request that failed stays pending, to be sent again)
SettleRetrying(o) ==
  /\ responses' = Append(responses, o)
  /\ inFlight' = IF o.kind = "reject" \/ ~o.ok THEN inFlight ELSE inFlight - 1

\* fetch settles with outcome o.
Settle(o) ==
  /\ responses' = Append(responses, o)
  /\ inFlight' = inFlight - 1

\* The client operation is over with completion c: a value returned or an
\* error raised; under the command line the handler ends with status code.
Finish(c, code) ==
  /\ result' = IF c.t = "throw" THEN U ELSE c
  /\ thrown' = IF c.t = "throw" THEN c.x ELSE U
  /\ pc' = IF mode = "cli" THEN "exited"
           ELSE IF c.t = "throw" THEN "raised" ELSE "returned"
  /\ exitCode' = IF mode = "cli" THEN Num(code) ELSE U

Command(a) == At(a, 1)
Rest(a) == IF a = <<>> THEN <<>> ELSE Tail(a)

(* ---- scripts calling the client ---- *)

createPlaybook(playbookId) ==
  /\ Start("lib", <<>>, U)
  /\ CallOp(TextQLClient(LibConfig), "createPlaybook", playbookId, "awaitCreate",
            "CreatePlaybook", CreatePlaybookRequest(playbookId))
  /\ UNCHANGED file

updatePlaybook(playbook) ==
  /\ Start("lib", <<>>, U)
  /\ CallOp(TextQLClient(LibConfig), "updatePlaybook", playbook, "awaitUpdate",
            "UpdatePlaybook", playbook)
  /\ UNCHANGED file

getConnectors ==
  /\ Start("lib", <<>>, U)
  /\ CallOp(TextQLClient(LibConfig), "getConnectors", U, "awaitConnectors",
            "GetConnectors", EmptyObj)
  /\ UNCHANGED file

listConnectors ==
  /\ Start("lib", <<>>, U)
  /\ CallOp(TextQLClient(LibConfig), "listConnectors", U, "awaitConnectors",
            "GetConnectors", EmptyObj)
  /\ UNCHANGED file

findConnectorByName(name) ==
  /\ Start("lib", <<>>, U)
  /\ CallOp(TextQLClient(LibConfig), "findConnectorByName", name, "awaitConnectors",
            "GetConnectors", EmptyObj)
  /\ UNCHANGED file

createCompletePlaybook(p) ==
  /\ Start("lib", <<>>, U)
  /\ CallOp(TextQLClient(LibConfig), "createCompletePlaybook", p, "awaitCreate",
            "CreatePlaybook", CreatePlaybookRequest(p.playbookId))
  /\ UNCHANGED file

(* ---- a script goes on to another call ---- *)

\* The call that has just returned, as the script keeps it: what it called,
\* what that sent, and whether the Result was a success.
LastCall ==
  [op |-> op, params |-> params, requests |-> requests,
   success |-> IsResult(result) /\ result.success]

\* The script calls another operation of the same client once the last one
\* has returned.
CallAgain ==
  /\ mode = "lib"
  /\ pc = "returned"
  /\ Len(done) + 1 < MaxCalls
  /\ done' = Append(done, LastCall)
  /\ responses' = <<>>
  /\ createResult' = U
  /\ result' = U
  /\ thrown' = U
  /\ UNCHANGED <<file, env, mode, argv>>

\* createPlaybook(id) is followed by updatePlaybook(playbook) for that id,
\* whatever createPlaybook returned.
thenUpdatePlaybook(playbook) ==
  /\ op = "createPlaybook"
  /\ Get(playbook, "playbookId") = params
  /\ CallAgain
  /\ CallOp(client, "updatePlaybook", playbook, "awaitUpdate",
            "UpdatePlaybook", playbook)

\* createCompletePlaybook returned a failure and the script calls it again
\* with the same parameters.
retryCreateCompletePlaybook ==
  /\ op = "createCompletePlaybook"
  /\ pc = "returned"
  /\ ~result.success
  /\ CallAgain
  /\ CallOp(client, "createCompletePlaybook", params, "awaitCreate",
            "CreatePlaybook", CreatePlaybookRequest(params.playbookId))

(* ---- command-line invocations: TextQLCLI.run ---- *)

RunConfig(a, e) ==
  /\ Command(a) = Str(<<"config">>)
  /\ Start("cli", a, e)
  /\ LET h == HandleConfig(file, Rest(a)) IN
       /\ file' = h.file
       /\ ExitNow(U, h.code)

RunConnectors(a, e) ==
  /\ Command(a) = Str(<<"connectors">>)
  /\ Start("cli", a, e)
  /\ LET h == HandleConnectors(file, e) IN
       IF h.exit THEN ExitNow(h.client, 1)
       ELSE CallOp(h.client, "listConnectors", U, "awaitConnectors",
                   "GetConnectors", EmptyObj)
  /\ UNCHANGED file

RunCreate(a, e) ==
  /\ Command(a) = Str(<<"create">>)
  /\ Start("cli", a, e)
  /\ LET h == HandleCreate(file, e, Rest(a)) IN
       IF h.exit THEN ExitNow(h.client, 1)
       ELSE CallOp(h.client, "createCompletePlaybook", h.params, "awaitCreate",
                   "CreatePlaybook", CreatePlaybookRequest(h.params.playbookId))
  /\ UNCHANGED file

RunUpdate(a, e) ==
  /\ Command(a) = Str(<<"update">>)
  /\ Start("cli", a, e)
  /\ LET h == HandleUpdate(file, e, Rest(a)) IN
       IF h.exit THEN ExitNow(h.client, 1)
       ELSE CallOp(h.client, "updatePlaybook", h.params, "awaitUpdate",
                   "UpdatePlaybook", h.params)
  /\ UNCHANGED file

RunHelp(a, e) ==
  /\ Command(a) \in {Str(<<"help">>), Str(<<"--help">>), Str(<<"-h">>)}
  /\ Start("cli", a, e)
  /\ ExitNow(U, 0)
  /\ UNCHANGED file

RunUnknown(a, e) ==
  /\ Command(a) \notin {Str(<<"config">>), Str(<<"connectors">>), Str(<<"create">>),
                        Str(<<"update">>), Str(<<"help">>), Str(<<"--help">>),
                        Str(<<"-h">>)}
  /\ Start("cli", a, e)
  /\ ExitNow(U, 1)
  /\ UNCHANGED file

(* ---- fetch settles and the operation goes on ---- *)

CreatePlaybookSettles(o) ==
  /\ pc = "awaitCreate" /\ op = "createPlaybook"
  /\ Settle(o)
  /\ Finish(MakeRequestResult(o), 0)
  /\ UNCHANGED <<file, env, mode, argv, client, op, params, requests, createResult, done>>

\* updatePlaybook returns; under the command line, handleUpdate ends.
UpdatePlaybookSettles(o) ==
  /\ pc = "awaitUpdate" /\ op = "updatePlaybook"
  /\ Settle(o)
  /\ LET r == MakeRequestResult(o) IN Finish(r, HandleUpdateExit(r))
  /\ UNCHANGED <<file, env, mode, argv, client, op, params, requests, createResult, done>>

GetConnectorsSettles(o) ==
  /\ pc = "awaitConnectors" /\ op = "getConnectors"
  /\ Settle(o)
  /\ Finish(MakeRequestResult(o), 0)
  /\ UNCHANGED <<file, env, mode, argv, client, op, params, requests, createResult, done>>

\* listConnectors returns or raises; under the command line, handleConnectors ends.
ListConnectorsSettles(o) ==
  /\ pc = "awaitConnectors" /\ op = "listConnectors"
  /\ Settle(o)
  /\ LET l == ListConnectors(MakeRequestResult(o)) IN Finish(l, HandleConnectorsExit(l))
  /\ UNCHANGED <<file, env, mode, argv, client, op, params, requests, createResult, done>>

FindConnectorSettles(o) ==
  /\ pc = "awaitConnectors" /\ op = "findConnectorByName"
  /\ Settle(o)
  /\ Finish(FindConnectorByName(ListConnectors(MakeRequestResult(o)), params), 0)
  /\ UNCHANGED <<file, env, mode, argv, client, op, params, requests, createResult, done>>

\* createCompletePlaybook after its create step: it returns the failure, or
\* sends the update request.
CompleteCreateSettles(o) ==
  /\ pc = "awaitCreate" /\ op = "createCompletePlaybook"
  /\ LET cr == MakeRequestResult(o) IN
       /\ createResult' = cr
       /\ responses' = Append(responses, o)
       /\ IF cr.t = "throw"
          THEN /\ inFlight' = inFlight - 1
               /\ Finish(cr, HandleCreateExit(cr))
               /\ UNCHANGED requests
          ELSE IF CompleteShortCircuits(cr)
          THEN /\ inFlight' = inFlight - 1
               /\ Finish(CompleteCreateFailure(cr),
                         HandleCreateExit(CompleteCreateFailure(cr)))
               /\ UNCHANGED requests
          ELSE /\ requests' = Append(requests,
                                     MakeRequestSend(client, "UpdatePlaybook", "POST",
                                                     CompleteUpdateRequest(params)))
               /\ inFlight' = inFlight
               /\ pc' = "awaitUpdate"
               /\ UNCHANGED <<result, thrown, exitCode>>
  /\ UNCHANGED <<file, env, mode, argv, client, op, params, done>>

\* createCompletePlaybook returns; under the command line, handleCreate ends.
CompleteUpdateSettles(o) ==
  /\ pc = "awaitUpdate" /\ op = "createCompletePlaybook"
  /\ Settle(o)
  /\ LET ur == MakeRequestResult(o)
         r == IF ur.t = "throw" THEN ur ELSE CompleteReturn(createResult, ur)
     IN Finish(r, HandleCreateExit(r))
  /\ UNCHANGED <<file, env, mode, argv, client, op, params, requests, createResult, done>>

\* The process is gone; only the settings file remains of it.
Terminate ==
  /\ Stopped
  /\ pc' = "idle"
  /\ env' = U
  /\ mode' = "none"
  /\ argv' = <<>>
  /\ client' = U
  /\ op' = "none"
  /\ params' = U
  /\ requests' = <<>>
  /\ responses' = <<>>
  /\ inFlight' = 0
  /\ createResult' = U
  /\ result' = U
  /\ thrown' = U
  /\ exitCode' = U
  /\ done' = <<>>
  /\ UNCHANGED file

CreateOutcomes == Outcomes("CreatePlaybook")
UpdateOutcomes == Outcomes("UpdatePlaybook")
ConnectorsOutcomes == Outcomes("GetConnectors")

Next ==
  \/ pc = "idle" /\ \E id \in PlaybookIds : createPlaybook(id)
  \/ pc = "idle" /\ \E u \in UpdateRequests : updatePlaybook(u)
  \/ getConnectors
  \/ listConnectors
  \/ pc = "idle" /\ \E n \in FindNames : findConnectorByName(n)
  \/ pc = "idle" /\ \E p \in CompleteParams : createCompletePlaybook(p)
  \/ pc = "returned" /\ \E u \in UpdateRequests : thenUpdatePlaybook(u)
  \/ retryCreateCompletePlaybook
  \/ pc = "idle" /\ \E a \in ConfigArgvs, e \in EnvValues : RunConfig(a, e)
  \/ pc = "idle" /\ \E a \in OtherArgvs, e \in EnvValues : RunConnectors(a, e)
  \/ pc = "idle" /\ \E a \in CreateArgvs, e \in EnvValues : RunCreate(a, e)
  \/ pc = "idle" /\ \E a \in UpdateArgvs, e \in EnvValues : RunUpdate(a, e)
  \/ pc = "idle" /\ \E a \in OtherArgvs, e \in EnvValues : RunHelp(a, e)
  \/ pc = "idle" /\ \E a \in OtherArgvs, e \in EnvValues : RunUnknown(a, e)
  \/ pc = "awaitCreate" /\ \E o \in CreateOutcomes : CreatePlaybookSettles(o)
  \/ pc = "awaitUpdate" /\ \E o \in UpdateOutcomes : UpdatePlaybookSettles(o)
  \/ pc = "awaitConnectors" /\ \E o \in ConnectorsOutcomes : GetConnectorsSettles(o)
  \/ pc = "awaitConnectors" /\ \E o \in ConnectorsOutcomes : ListConnectorsSettles(o)
  \/ pc = "awaitConnectors" /\ \E o \in ConnectorsOutcomes : FindConnectorSettles(o)
  \/ pc = "awaitCreate" /\ \E o \in CreateOutcomes : CompleteCreateSettles(o)
  \/ pc = "awaitUpdate" /\ \E o \in UpdateOutcomes : CompleteUpdateSettles(o)
  \/ Terminate

Spec == Init /\ [][Next]_vars

-----------------------------------------------------------------------------
(* Properties *)

ResultOps == {"createPlaybook", "updatePlaybook", "getConnectors", "createCompletePlaybook"}

\* The last request was settled by o.
LastResponse == responses[Len(responses)]

(* ---- C1 ---- *)

\* C1: when the create step of createCompletePlaybook returns a failure
\* Result, the operation is over with exactly one request sent, the
\* CreatePlaybook one, and its Result is a failure carrying the create step's
\* error unchanged; the UpdatePlaybook request is never sent.
C1_FailedCreateSkipsUpdate ==
  (op = "createCompletePlaybook" /\ IsResult(createResult) /\ ~createResult.success)
    => /\ Len(requests) = 1
       /\ requests[1].endpoint = "CreatePlaybook"
       /\ \A i \in 1..Len(requests) : requests[i].endpoint # "UpdatePlaybook"
       /\ Stopped
       /\ inFlight = 0
       /\ IsResult(result)
       /\ ~result.success
       /\ result.error = createResult.error
       /\ result.data = U

C1_Witness ==
  /\ op = "createCompletePlaybook"
  /\ Stopped
  /\ IsResult(createResult) /\ ~createResult.success
  /\ createResult.error = Obj([message |-> Str(<<"bad request">>), code |-> Str(<<"E1">>)])
  /\ Len(requests) = 1

(* ---- C2 ---- *)

\* C2: when the create step of createCompletePlaybook succeeds, two requests
\* are sent, CreatePlaybook then UpdatePlaybook, and once the operation is
\* over its Result is the Result makeRequest gives for the UpdatePlaybook
\* response, success or failure, with nothing of the create step's data in it.
C2_ReturnsUpdateResultVerbatim ==
  (op = "createCompletePlaybook" /\ IsResult(createResult) /\ createResult.success /\ Stopped)
    => /\ Len(requests) = 2 /\ Len(responses) = 2
       /\ requests[1].endpoint = "CreatePlaybook"
       /\ requests[2].endpoint = "UpdatePlaybook"
       /\ thrown = U
       /\ IsResult(result)
       /\ LET o == responses[2] IN
            /\ (o.kind = "response" /\ o.ok /\ o.body.t = "json")
                 => result = Success(o.body.v)
            /\ (o.kind = "response" /\ ~o.ok /\ o.body.t = "json")
                 => result = Failure(o.body.v)
            /\ (o.kind = "reject" \/ o.body.t = "text") => ~result.success
       /\ (Truthy(createResult.data) /\ result.success) => result.data # createResult.data

C2_Witness ==
  /\ op = "createCompletePlaybook"
  /\ Stopped
  /\ IsResult(createResult) /\ createResult.success /\ Truthy(createResult.data)
  /\ IsResult(result) /\ result.success /\ Truthy(result.data)

(* ---- C3 ---- *)

\* C3: however fetch settles (it rejects, answers a non-success status with
\* any body, or answers a success status with a body that is not JSON),
\* createPlaybook, updatePlaybook, getConnectors and createCompletePlaybook
\* end by returning a Result and never by raising; when fetch rejected with
\* an Error the Result is a failure whose error holds that Error's message
\* and nothing else.
C3_ResultOpsNeverRaise ==
  (op \in ResultOps /\ Len(responses) > 0)
    => /\ pc # "raised"
       /\ thrown = U
       /\ Stopped => IsResult(result)
       /\ (Stopped /\ LastResponse.kind = "reject")
            => /\ ~result.success
               /\ result.error.t = "object"
               /\ DOMAIN result.error.f = {"message"}
               /\ LastResponse.x.t = "error"
                    => result.error.f.message = LastResponse.x.message
       /\ (Stopped /\ LastResponse.kind = "response" /\ ~LastResponse.ok)
            => ~result.success
       /\ (Stopped /\ LastResponse.kind = "response" /\ LastResponse.ok
             /\ LastResponse.body.t = "text")
            => (~result.success /\ Truthy(Get(result.error, "message")))

C3_Witness ==
  /\ op \in ResultOps
  /\ Stopped
  /\ Len(responses) > 0
  /\ LastResponse.kind = "reject"
  /\ IsResult(result) /\ ~result.success

(* ---- C4 ---- *)

\* C4: for every non-success response, whatever its body, the failure Result
\* carries a non-null error object whose message is a non-empty string.
C4_ErrorAlwaysHasMessage ==
  (op \in ResultOps /\ Stopped /\ Len(responses) > 0
     /\ LastResponse.kind = "response" /\ ~LastResponse.ok)
    => /\ IsResult(result)
       /\ ~result.success
       /\ result.error.t = "object"
       /\ Get(result.error, "message").t = "string"
       /\ Get(result.error, "message").s # <<>>

(* ---- C5 ---- *)

\* Two characters that are the same letter, whatever their case.
CasePairs ==
  { <<"A", "a">>, <<"B", "b">>, <<"C", "c">>, <<"D", "d">>, <<"E", "e">>,
    <<"F", "f">>, <<"G", "g">>, <<"H", "h">>, <<"I", "i">>, <<"J", "j">>,
    <<"K", "k">>, <<"L", "l">>, <<"M", "m">>, <<"N", "n">>, <<"O", "o">>,
    <<"P", "p">>, <<"Q", "q">>, <<"R", "r">>, <<"S", "s">>, <<"T", "t">>,
    <<"U", "u">>, <<"V", "v">>, <<"W", "w">>, <<"X", "x">>, <<"Y", "y">>,
    <<"Z", "z">> }

SameLetter(a, b) == a = b \/ <<a, b>> \in CasePairs \/ <<b, a>> \in CasePairs

\* sub occurs in s, ignoring letter case.
ContainsIgnoringCase(s, sub) ==
  \E i \in 0..(Len(s) - Len(sub)) : \A k \in 1..Len(sub) : SameLetter(s[i + k], sub[k])

PostgresProd == <<"P", "o", "s", "t", "g", "r", "e", "s", "-", "P", "r", "o", "d">>
MySQL == <<"M", "y", "S", "Q", "L">>

\* The response to GetConnectors carried a list of connectors.
ListFetched ==
  /\ Len(responses) = 1
  /\ responses[1].kind = "response" /\ responses[1].ok
  /\ responses[1].body.t = "json"
  /\ Get(responses[1].body.v, "connectors").t = "array"

FetchedList == Get(responses[1].body.v, "connectors").a

\* C5: when the connector list was fetched, findConnectorByName(name) returns
\* (it does not raise) the first connector of the list, in the service's
\* order, whose name contains name ignoring letter case, and null when there
\* is none; "postgres" against [Postgres-Prod, MySQL] gives Postgres-Prod.
C5_FindFirstMatchIgnoringCase ==
  (op = "findConnectorByName" /\ Stopped /\ ListFetched)
    => /\ pc = "returned"
       /\ thrown = U
       /\ LET l == FetchedList
              hit(i) == ContainsIgnoringCase(l[i].f.name.s, params.s)
          IN /\ (\A i \in 1..Len(l) : ~hit(i)) => result = Null
             /\ \A i \in 1..Len(l) :
                  (hit(i) /\ \A j \in 1..(i - 1) : ~hit(j)) => result = l[i]
       /\ (params = Str(POSTGRES)
             /\ FetchedList = <<Connector(1, PostgresProd), Connector(2, MySQL)>>)
            => result = Connector(1, PostgresProd)

C5_Witness ==
  /\ op = "findConnectorByName" /\ Stopped /\ ListFetched
  /\ params = Str(POSTGRES)
  /\ FetchedList = <<Connector(1, MySQL), Connector(2, PostgresProd)>>
  /\ result = Connector(2, PostgresProd)

(* ---- C6 ---- *)

\* What the getConnectors call under listConnectors resolved to.
GetConnectorsResult == MakeRequestResult(responses[1])

ListOps == {"listConnectors", "findConnectorByName"}

\* C6 as stated: listConnectors and findConnectorByName raise whenever
\* getConnectors resolves to a failure Result, and on every success Result
\* listConnectors returns that Result's connectors.
C6_ListReturnsOnEverySuccess ==
  (op \in ListOps /\ Stopped /\ Len(responses) = 1)
    => /\ ~GetConnectorsResult.success => (thrown # U /\ result = U)
       /\ (GetConnectorsResult.success /\ op = "listConnectors")
            => (thrown = U /\ result = Get(GetConnectorsResult.data, "connectors"))

\* C6 as amended: listConnectors and findConnectorByName raise an Error, and
\* return nothing, whenever getConnectors resolves to a failure Result and
\* also when it resolves to a success Result without data (a null body); on
\* every success Result with data listConnectors returns data.connectors.
C6_ListRaisesOnFailureOrNoData ==
  (op \in ListOps /\ Stopped /\ Len(responses) = 1)
    => /\ (~GetConnectorsResult.success \/ ~Truthy(GetConnectorsResult.data))
            => /\ thrown.t = "error"
               /\ result = U
               /\ mode = "lib" => pc = "raised"
               /\ mode = "cli" => exitCode = Num(1)
       /\ (GetConnectorsResult.success /\ Truthy(GetConnectorsResult.data)
             /\ op = "listConnectors")
            => /\ thrown = U
               /\ result = Get(GetConnectorsResult.data, "connectors")
               /\ mode = "lib" => pc = "returned"

C6_Witness ==
  /\ op = "listConnectors" /\ mode = "lib"
  /\ pc = "raised"
  /\ Len(responses) = 1
  /\ GetConnectorsResult.success
  /\ GetConnectorsResult.data = Null
  /\ thrown = Err(Str(<<"Failed to fetch connectors">>))

(* ---- C7 ---- *)

\* The settings file holds field k.
Persisted(k) == file.t = "json" /\ k \in DOMAIN file.v.f

NeedsClient(a) ==
  Command(a) \in {Str(<<"connectors">>), Str(<<"create">>), Str(<<"update">>)}

\* C7: with no API key in the settings file and TEXTQL_API_KEY unset, the
\* connectors, create and update commands end with a non-zero exit status
\* and without any request sent.
C7_NoKeyNoRequest ==
  (mode = "cli" /\ NeedsClient(argv) /\ ~Persisted("apiKey") /\ env = U)
    => /\ pc = "exited"
       /\ exitCode.t = "number" /\ exitCode.n # 0
       /\ requests = <<>>
       /\ responses = <<>>
       /\ inFlight = 0

C7_Witness ==
  /\ mode = "cli" /\ ~Persisted("apiKey") /\ env = U
  /\ argv = <<<<"update">>, Tok("--id", <<"pb1">>), Tok("--connector", <<"5">>)>>
  /\ Persisted("defaultCronString")
  /\ pc = "exited" /\ exitCode = Num(1)

(* ---- C8 ---- *)

HasFlag(args, flag) == \E i \in 1..Len(args) : StartsWith(args[i], <<flag, "=">>)

RequiredFlags == {"--id", "--prompt", "--name", "--emails"}

\* C8: a create command lacking any of --id, --prompt, --name, --emails ends
\* with a non-zero exit status and without any request sent, whatever the
\* other flags, the settings and the environment.
C8_CreateMissingFlagNoRequest ==
  (mode = "cli" /\ Command(argv) = Str(<<"create">>)
     /\ \E f \in RequiredFlags : ~HasFlag(Rest(argv), f))
    => /\ pc = "exited"
       /\ exitCode.t = "number" /\ exitCode.n # 0
       /\ requests = <<>>
       /\ inFlight = 0

C8_Witness ==
  /\ mode = "cli" /\ Command(argv) = Str(<<"create">>)
  /\ Persisted("apiKey") /\ Persisted("defaultConnectorId")
  /\ HasFlag(Rest(argv), "--id") /\ HasFlag(Rest(argv), "--prompt")
  /\ HasFlag(Rest(argv), "--emails") /\ HasFlag(Rest(argv), "--connector")
  /\ ~HasFlag(Rest(argv), "--name")
  /\ pc = "exited" /\ exitCode = Num(1) /\ requests = <<>>

(* ---- C9 ---- *)

\* The text after the first '=' of the first token of args for flag.
FlagText(args, flag) ==
  LET i == CHOOSE i \in 1..Len(args) :
             /\ StartsWith(args[i], <<flag, "=">>)
             /\ \A j \in 1..(i - 1) : ~StartsWith(args[j], <<flag, "=">>)
  IN SubSeq(args[i], 3, Len(args[i]))

\* A value is given for flag.
Given(args, flag) == HasFlag(args, flag) /\ FlagText(args, flag) # <<>>

ExpectedCron ==
  IF Given(Rest(argv), "--cron") THEN Str(FlagText(Rest(argv), "--cron"))
  ELSE IF Persisted("defaultCronString") THEN file.v.f.defaultCronString
  ELSE Str(<<"0 13 * * *">>)

UpdateBody(i) == requests[i].body.v.f

\* C9: the cronString the update and create commands submit is the value of
\* the --cron flag when one is given, otherwise the persisted
\* defaultCronString when there is one, otherwise "0 13 * * *".
C9_CronPrecedence ==
  (mode = "cli" /\ Command(argv) \in {Str(<<"create">>), Str(<<"update">>)})
    => \A i \in 1..Len(requests) :
         requests[i].endpoint = "UpdatePlaybook" => UpdateBody(i).cronString = ExpectedCron

C9_Witness ==
  /\ mode = "cli" /\ Command(argv) = Str(<<"update">>)
  /\ ~HasFlag(Rest(argv), "--cron")
  /\ Persisted("defaultCronString")
  /\ file.v.f.defaultCronString = Str(<<"0 9 * * *">>)
  /\ Len(requests) = 1
  /\ requests[1].endpoint = "UpdatePlaybook"
  /\ UpdateBody(1).cronString = Str(<<"0 9 * * *">>)

(* ---- C10 ---- *)

OnlyId == argv = <<<<"update">>, Tok("--id", <<"pb1">>)>>

KeyAvailable == Persisted("apiKey") \/ env # U

\* The record an update command given only --id submits.
DefaultsRecord ==
  Obj([prompt |-> Str(<<"SELECT 1;">>),
       name |-> Str(<<"Updated Playbook">>),
       playbookId |-> Str(<<"pb1">>),
       emailAddresses |-> Arr(<<Str(<<"admin@example.com">>)>>),
       status |-> Str(<<"STATUS_ACTIVE">>),
       paradigmType |-> Str(<<"TYPE_SQL">>),
       paradigmOptions |-> Obj([connectorId |-> file.v.f.defaultConnectorId]),
       triggerType |-> Str(<<"TRIGGER_TYPE_CRON">>),
       cronString |-> IF Persisted("defaultCronString") THEN file.v.f.defaultCronString
                      ELSE Str(<<"0 13 * * *">>)])

SendsOneFullUpdate ==
  /\ Len(requests) = 1
  /\ requests[1].endpoint = "UpdatePlaybook"
  /\ \A k \in DOMAIN UpdateBody(1) : Truthy(UpdateBody(1)[k])

\* C10 as stated: an update command given only --id, with an API key
\* available, sends exactly one UpdatePlaybook request with a complete
\* record, whatever the persisted settings hold.
C10_UpdateNeedsOnlyId ==
  (mode = "cli" /\ OnlyId /\ KeyAvailable) => SendsOneFullUpdate

DefaultConnectorSet ==
  Persisted("defaultConnectorId") /\ Truthy(file.v.f.defaultConnectorId)

\* C10 as amended: an update command given only --id, with an API key
\* available, sends exactly one request, an UpdatePlaybook carrying the
\* complete record built from the persisted and hardcoded defaults, when the
\* settings hold a non-zero defaultConnectorId; when they hold none it ends
\* with a non-zero exit status and sends nothing.
C10_UpdateOnlyIdNeedsDefaultConnector ==
  (mode = "cli" /\ OnlyId /\ KeyAvailable)
    => IF DefaultConnectorSet
       THEN /\ SendsOneFullUpdate
            /\ requests[1].body = JsonBody(DefaultsRecord)
            /\ Stopped => (Len(responses) = 1 /\ inFlight = 0)
       ELSE /\ pc = "exited"
            /\ exitCode = Num(1)
            /\ requests = <<>>

C10_Witness ==
  /\ mode = "cli" /\ OnlyId
  /\ Persisted("apiKey")
  /\ DefaultConnectorSet
  /\ ~Persisted("defaultCronString")
  /\ pc = "exited" /\ exitCode = Num(0)
  /\ Len(requests) = 1
  /\ UpdateBody(1).paradigmOptions = Obj([connectorId |-> Num(7)])

(* ---- C11 ---- *)

\* The requests of the calls in d, in order.
RECURSIVE RequestsOf(_)
RequestsOf(d) ==
  IF d = <<>> THEN <<>> ELSE Head(d).requests \o RequestsOf(Tail(d))

\* Every request the script has sent so far, in order.
Sent == RequestsOf(done) \o requests

\* The update record holding the field values of the parameters p, with the
\* schedule "0 13 * * *" and the status ACTIVE where p omits them.
SameFields(p) ==
  Obj([prompt |-> p.prompt,
       name |-> p.name,
       playbookId |-> p.playbookId,
       emailAddresses |-> p.emailAddresses,
       status |-> IF p.status = U THEN Str(<<"STATUS_ACTIVE">>) ELSE p.status,
       paradigmType |-> Str(<<"TYPE_SQL">>),
       paradigmOptions |-> Obj([connectorId |-> p.connectorId]),
       triggerType |-> Str(<<"TRIGGER_TYPE_CRON">>),
       cronString |-> IF p.cronString = U THEN Str(<<"0 13 * * *">>) ELSE p.cronString])

\* What createPlaybook(id) followed by updatePlaybook(u) sends through client c.
ManualSequence(c, id, u) ==
  << MakeRequestSend(c, "CreatePlaybook", "POST", CreatePlaybookRequest(id)),
     MakeRequestSend(c, "UpdatePlaybook", "POST", u) >>

\* A script has called createPlaybook and then updatePlaybook.
ManualTwoStep ==
  /\ Len(done) = 1
  /\ done[1].op = "createPlaybook"
  /\ op = "updatePlaybook"

\* C11 as stated: whatever the service answers, a createCompletePlaybook
\* call that is over has sent the sequence of requests that createPlaybook
\* followed by updatePlaybook with the same field values sends.
C11_CompositeSendsManualSequence ==
  (op = "createCompletePlaybook" /\ Stopped)
    => requests = ManualSequence(client, params.playbookId, SameFields(params))

\* C11 as amended: createPlaybook(id) followed by updatePlaybook(u) sends the
\* CreatePlaybook request and then the UpdatePlaybook request, whatever the
\* first call returned; createCompletePlaybook(p) sends that same sequence,
\* for u holding p's field values with "0 13 * * *" and ACTIVE where p omits
\* them, when its create step returns a success Result, and only the
\* CreatePlaybook request when its create step returns a failure Result.
C11_SameSequenceWhenCreateSucceeds ==
  /\ ManualTwoStep => Sent = ManualSequence(client, done[1].params, params)
  /\ (op = "createCompletePlaybook" /\ IsResult(createResult))
       => IF createResult.success
          THEN requests = ManualSequence(client, params.playbookId, SameFields(params))
          ELSE requests = <<ManualSequence(client, params.playbookId, SameFields(params))[1]>>

C11_Witness ==
  /\ ManualTwoStep
  /\ Stopped
  /\ done[1].success
  /\ \E p \in CompleteParams :
       /\ p.cronString = U /\ p.status = U
       /\ params = SameFields(p)
       /\ Sent = ManualSequence(client, p.playbookId, SameFields(p))

(* ---- C12 ---- *)

\* fetch settled in a way makeRequest reports as a failure.
Failed(o) == o.kind = "reject" \/ ~o.ok \/ o.body.t = "text"

SingleRequestOps ==
  {"createPlaybook", "updatePlaybook", "getConnectors", "listConnectors",
   "findConnectorByName"}

\* C12: at most one request is in flight at any moment and every request
\* sent is either in flight or settled exactly once; createPlaybook,
\* updatePlaybook and getConnectors send exactly one request each and
\* createCompletePlaybook one or two, CreatePlaybook first and UpdatePlaybook
\* only once the CreatePlaybook response is in; no request follows a failed
\* one and no endpoint is asked twice within one call.
C12_OneRequestAtATimeNoRetry ==
  /\ inFlight \in {0, 1}
  /\ Len(requests) = Len(responses) + inFlight
  /\ Stopped => inFlight = 0
  /\ op \in SingleRequestOps => Len(requests) = 1
  /\ op = "createCompletePlaybook"
       => /\ Len(requests) \in {1, 2}
          /\ requests[1].endpoint = "CreatePlaybook"
          /\ Len(requests) = 2
               => /\ requests[2].endpoint = "UpdatePlaybook"
                  /\ Len(responses) >= 1
                  /\ ~Failed(responses[1])
  /\ \A i \in 1..Len(responses) : Failed(responses[i]) => Len(requests) = i
  /\ \A i, j \in 1..Len(requests) :
       i # j => requests[i].endpoint # requests[j].endpoint

C12_Witness ==
  /\ op = "createCompletePlaybook"
  /\ Stopped
  /\ Len(requests) = 2 /\ Len(responses) = 2
  /\ inFlight = 0
  /\ Failed(responses[2])

(* ---- C13 ---- *)

\* C13: a command that needs the client builds it with the apiKey of the
\* settings file whenever the file holds one, whatever TEXTQL_API_KEY is; with
\* the value of TEXTQL_API_KEY when the file holds none; and builds no client
\* only when both are missing.  Every request carries that key.
C13_FileKeyBeforeEnvironment ==
  (mode = "cli" /\ NeedsClient(argv))
    => /\ Persisted("apiKey")
            => (client # U /\ client.config.apiKey = file.v.f.apiKey)
       /\ (~Persisted("apiKey") /\ env # U)
            => (client # U /\ client.config.apiKey = env)
       /\ (~Persisted("apiKey") /\ env = U) => client = U
       /\ \A i \in 1..Len(requests) :
            requests[i].authorization = <<"ApiKey ">> \o client.config.apiKey.s

C13_Witness ==
  /\ mode = "cli" /\ NeedsClient(argv)
  /\ Persisted("apiKey")
  /\ file.v.f.apiKey = Str(<<"key-file">>)
  /\ env = Str(<<"key-env">>)
  /\ Len(requests) = 1
  /\ requests[1].authorization = <<"ApiKey ", "key-file">>

(* ---- C14 ---- *)

HelpCommands == {Str(<<"help">>), Str(<<"--help">>), Str(<<"-h">>)}

KnownCommands ==
  {Str(<<"config">>), Str(<<"connectors">>), Str(<<"create">>), Str(<<"update">>)}
    \cup HelpCommands

\* A config subcommand that has what it needs.
ConfigSucceeded ==
  LET sub == At(Rest(argv), 1)
      arg == At(Rest(argv), 2)
      given == arg.t = "string" /\ arg.s # <<>>
  IN \/ sub = Str(<<"show">>)
     \/ sub \in {Str(<<"set-api-key">>), Str(<<"set-cron">>)} /\ given
     \/ sub = Str(<<"set-connector">>) /\ given /\ Head(arg.s) \in DigitChars

\* The command did what it is for.
CommandSucceeded ==
  CASE Command(argv) \in HelpCommands -> TRUE
    [] Command(argv) = Str(<<"config">>) -> ConfigSucceeded
    [] Command(argv) = Str(<<"connectors">>) -> result.t = "array"
    [] Command(argv) \in {Str(<<"create">>), Str(<<"update">>)} ->
         IsResult(result) /\ result.success
    [] OTHER -> FALSE

\* Unknown command or subcommand, missing argument or flag, missing connector.
ValidationFailure ==
  \/ Command(argv) \notin KnownCommands
  \/ Command(argv) = Str(<<"config">>) /\ ~ConfigSucceeded
  \/ /\ Command(argv) = Str(<<"create">>)
     /\ \E f \in RequiredFlags : ~HasFlag(Rest(argv), f)
  \/ Command(argv) = Str(<<"update">>) /\ ~HasFlag(Rest(argv), "--id")
  \/ /\ Command(argv) \in {Str(<<"create">>), Str(<<"update">>)}
     /\ ~HasFlag(Rest(argv), "--connector")
     /\ ~DefaultConnectorSet

MissingKey == NeedsClient(argv) /\ ~KeyAvailable

OperationFailed == thrown # U \/ (IsResult(result) /\ ~result.success)

\* C14: a command-line process that is over has an exit status, which is 0
\* exactly when its command succeeded, and is not 0 after a validation
\* failure, with no API key for a command that needs one, and when the
\* client operation returned a failure Result or raised.
C14_ExitZeroIffSucceeded ==
  (mode = "cli" /\ Stopped)
    => /\ pc = "exited"
       /\ exitCode.t = "number"
       /\ exitCode.n = 0 <=> CommandSucceeded
       /\ (ValidationFailure \/ MissingKey \/ OperationFailed) => exitCode.n # 0

C14_Witness ==
  /\ mode = "cli" /\ Stopped
  /\ Command(argv) = Str(<<"update">>)
  /\ Len(responses) = 1
  /\ IsResult(result) /\ ~result.success
  /\ exitCode = Num(1)

(* ---- C15 ---- *)

SettingsFields == {"apiKey", "baseUrl", "defaultConnectorId", "defaultCronString"}

\* Field k of the persisted record f; an absent file has no field.
FieldOf(f, k) == IF f.t = "json" /\ k \in DOMAIN f.v.f THEN f.v.f[k] ELSE U

\* The set-operation the command line a asks for, if any: its field and value.
SetOperation(a) ==
  LET sub == At(Rest(a), 1)
      arg == At(Rest(a), 2)
      given == arg.t = "string" /\ arg.s # <<>>
  IN IF Command(a) # Str(<<"config">>) \/ ~given THEN U
     ELSE IF sub = Str(<<"set-api-key">>) THEN [field |-> "apiKey", value |-> arg]
     ELSE IF sub = Str(<<"set-cron">>) THEN [field |-> "defaultCronString", value |-> arg]
     ELSE IF sub = Str(<<"set-connector">>) /\ Head(arg.s) \in DigitChars
     THEN [field |-> "defaultConnectorId", value |-> Num(DigitsValue(arg.s, 0))]
     ELSE U

\* One step of a process: a set-operation leaves its value in its own field
\* and every other field as it was; nothing else touches the file.
SetChangesOnlyItsField ==
  IF pc = "idle" /\ mode' = "cli" /\ SetOperation(argv') # U
  THEN LET set == SetOperation(argv') IN
       /\ FieldOf(file', set.field) = set.value
       /\ \A k \in SettingsFields \ {set.field} : FieldOf(file', k) = FieldOf(file, k)
       /\ file'.t = "json"
       /\ DOMAIN file'.v.f \subseteq SettingsFields
  ELSE file' = file

\* C15: from an absent settings file or from a persisted record, every
\* set-operation (setApiKey, setDefaultConnectorId, setDefaultCronString)
\* changes exactly its own field of the persisted record, to the value given,
\* and leaves the other three fields as they were; no other step changes the
\* file.  Hence after any sequence of them each field holds the value last
\* set for it.
C15_SetOperationsFrame == [][SetChangesOnlyItsField]_vars

\* Three set-operations have run on a record that held a baseUrl.
C15_Witness ==
  /\ mode = "cli" /\ pc = "exited" /\ exitCode = Num(0)
  /\ SetOperation(argv) # U
  /\ FieldOf(file, "baseUrl") = Str(<<"https://staging.textql.com">>)
  /\ FieldOf(file, "apiKey") = Str(<<"key-file">>)
  /\ FieldOf(file, "defaultConnectorId") = Num(7)
  /\ FieldOf(file, "defaultCronString") = Str(<<"0 9 * * *">>)

(* ---- C16 ---- *)

StatusValues == {<<"STATUS_ACTIVE">>, <<"STATUS_INACTIVE">>}

\* The status the command line asks for: the --status value of an update
\* command when that value is a status, ACTIVE for any other value or none.
ExpectedStatus ==
  IF /\ Command(argv) = Str(<<"update">>)
     /\ HasFlag(Rest(argv), "--status")
     /\ FlagText(Rest(argv), "--status") \in StatusValues
  THEN Str(FlagText(Rest(argv), "--status"))
  ELSE Str(<<"STATUS_ACTIVE">>)

\* C16: every UpdatePlaybook request of the create and update commands
\* carries paradigmType SQL, triggerType CRON, the status ACTIVE or INACTIVE
\* (ACTIVE for any --status value that is neither), paradigmOptions holding
\* a connectorId and nothing else, that id a non-zero integer, and a
\* non-empty cronString.
C16_UpdateRequestFullyConfigured ==
  (mode = "cli" /\ Command(argv) \in {Str(<<"create">>), Str(<<"update">>)})
    => \A i \in 1..Len(requests) :
         requests[i].endpoint = "UpdatePlaybook"
           => LET b == UpdateBody(i) IN
              /\ b.paradigmType = Str(<<"TYPE_SQL">>)
              /\ b.triggerType = Str(<<"TRIGGER_TYPE_CRON">>)
              /\ b.status.t = "string" /\ b.status.s \in StatusValues
              /\ b.status = ExpectedStatus
              /\ b.paradigmOptions.t = "object"
              /\ DOMAIN b.paradigmOptions.f = {"connectorId"}
              /\ b.paradigmOptions.f.connectorId.t = "number"
              /\ b.paradigmOptions.f.connectorId.n \in Int
              /\ b.paradigmOptions.f.connectorId.n # 0
              /\ b.cronString.t = "string"
              /\ b.cronString.s # <<>>

(* ---- C17 ---- *)

\* The flags whose value is submitted as a text field of the update record.
TextFlags ==
  { <<"--id", "playbookId">>, <<"--prompt", "prompt">>, <<"--name", "name">>,
    <<"--cron", "cronString">> }

\* C17: for every --key=value token of a create or update command, the
\* value submitted for that key is the whole text after the token's first
\* '=', further '=' characters included.
C17_ValueIsTextAfterFirstEquals ==
  (mode = "cli" /\ Command(argv) \in {Str(<<"create">>), Str(<<"update">>)})
    => \A i \in 1..Len(requests) :
         requests[i].endpoint = "UpdatePlaybook"
           => \A fl \in TextFlags :
                Given(Rest(argv), fl[1])
                  => UpdateBody(i)[fl[2]] = Str(FlagText(Rest(argv), fl[1]))

(* ---- C18 ---- *)

\* The call in progress is a createCompletePlaybook whose CreatePlaybook
\* request succeeded and whose UpdatePlaybook request failed.
UpdateStepFailed ==
  /\ op = "createCompletePlaybook"
  /\ Len(responses) = 2
  /\ ~Failed(responses[1])
  /\ Failed(responses[2])

\* An earlier createCompletePlaybook call that sent both requests and
\* returned a failure.
CreatedNotConfigured(call) ==
  /\ call.op = "createCompletePlaybook"
  /\ Len(call.requests) = 2
  /\ ~call.success

\* The CreatePlaybook requests among q that name playbook id.
CreatesOf(q, id) ==
  { i \in 1..Len(q) :
      /\ q[i].endpoint = "CreatePlaybook"
      /\ q[i].body = JsonBody(CreatePlaybookRequest(id)) }

\* C18: when the create step of createCompletePlaybook succeeds and its
\* update step fails, the operation returns the failure Result of the update
\* step having sent the CreatePlaybook and UpdatePlaybook requests and
\* nothing after them (the create command then exits with status 1); when
\* the operation is called again for the same id it sends CreatePlaybook for
\* that id again.
C18_FailedUpdateLeavesCreateAndRetryCreatesAgain ==
  /\ (Stopped /\ UpdateStepFailed)
       => /\ IsResult(result)
          /\ ~result.success
          /\ result = MakeRequestResult(responses[2])
          /\ Len(requests) = 2
          /\ requests[1].endpoint = "CreatePlaybook"
          /\ requests[2].endpoint = "UpdatePlaybook"
          /\ inFlight = 0
          /\ mode = "cli" => exitCode = Num(1)
  /\ \A k \in 1..Len(done) :
       CreatedNotConfigured(done[k])
         => LET later == RequestsOf(SubSeq(done, k + 1, Len(done))) \o requests
                id == done[k].params.playbookId
            IN /\ Len(done[k].requests) = 2
               /\ CreatesOf(done[k].requests, id) = {1}
               /\ done[k].requests[2].endpoint = "UpdatePlaybook"
               /\ op = "createCompletePlaybook" /\ params.playbookId = id
                    => CreatesOf(later, id) # {}

C18_Witness ==
  /\ Len(done) = 1
  /\ CreatedNotConfigured(done[1])
  /\ op = "createCompletePlaybook"
  /\ params.playbookId = done[1].params.playbookId
  /\ Cardinality(CreatesOf(Sent, params.playbookId)) = 2
  /\ Stopped

====
